---- MODULE Spec2Model ----
(***************************************************************************)
(* Model of script.js, the client-side script of the ZhiyanTrack site:     *)
(* the data-loading and rendering pipeline (DataLoader, UIComponents,      *)
(* PageManager), the debounce helper (Utils.debounce) and the active       *)
(* section highlighting (Navigation.setupActiveNavigation).                *)
(***************************************************************************)
EXTENDS Integers, Sequences, FiniteSets, TLC

VARIABLES
    pc,         \* position of PageManager.loadAndRenderContent
    isLoading,  \* AppState.isLoading
    data,       \* AppState.data
    stage,      \* per resource: position of its DataLoader.loadJSON call
    outcome,    \* per resource: how its fetch ended (history)
    body,       \* per resource: the document response.json() produced (history)
    promise,    \* per resource: the promise loadJSON returned
    success,    \* what loadAllData returned
    dom,        \* innerHTML of the four containers
    written,    \* containers assigned by the render step (history)
    threw,      \* the render step raised an exception
    branch,     \* branch loadAndRenderContent took
    timeout,    \* Utils.debounce: the closure variable `timeout`
    timers,     \* host timer table: pending setTimeout callbacks
    nextId,     \* next timer handle the host hands out
    log,        \* calls of the debounced function and invocations of func (history)
    bursts,     \* number of calls made while no timer was pending (history)
    href,       \* nav links in document order: the section id each points to
    classes,    \* classList of each nav link
    before,     \* classes before the last batch delivered to the observer callback (history)
    firstTarget, \* section of the first intersecting entry of the last batch, 0 if none (history)
    lastTarget, \* section of the last intersecting entry of the last batch, 0 if none (history)
    current     \* section of the last intersecting entry ever delivered, 0 if none (history)

loadVars == <<pc, isLoading, data, stage, outcome, body, promise, success, dom, written, threw, branch>>
debVars == <<timeout, timers, nextId, log, bursts>>
navVars == <<href, classes, before, firstTarget, lastTarget, current>>
vars == <<loadVars, debVars, navVars>>

(***************************************************************************)
(* Bounds of the model.                                                    *)
(***************************************************************************)
MaxFeatures == 7
MaxTech == 1
MaxUseCases == 4
MaxDelivery == 2
MaxCalls == 4
NumArgs == 2
NumSections == 2
NumLinks == 2
MaxBatch == 2

(***************************************************************************)
(* JavaScript values.  Every value that is tested or compared is a record  *)
(* with a `type` field; reading a property of null or undefined raises a   *)
(* TypeError, which is propagated as a value.                              *)
(***************************************************************************)
Null == [type |-> "null"]
Undefined == [type |-> "undefined"]
TypeError == [type |-> "TypeError"]
Arr(s) == [type |-> "array", elems |-> s]

Truthy(v) == v.type \notin {"null", "undefined"}

GetProp(o, f) ==
    IF o.type \in {"null", "undefined"} THEN TypeError
    ELSE IF f \in DOMAIN o THEN o[f] ELSE Undefined

Min(a, b) == IF a < b THEN a ELSE b

\* Array.prototype.slice(0, end)
sliceAll(arr, end) == arr

slice(arr, end) == Arr(SubSeq(arr.elems, 1, Min(Len(arr.elems), end)))

(***************************************************************************)
(* The four resources and the documents they may hold.                     *)
(***************************************************************************)
\* the keys of AppState.data, in the order loadAllData destructures them,
\* and the paths of loadPromises, in the order it fetches them
Keys == <<"features", "techAdvantages", "useCases", "serviceModel">>
Paths == <<"data/product-features.json", "data/tech-advantages.json",
           "data/use-cases.json", "data/service-model.json">>
KeySet == {Keys[i] : i \in 1..Len(Keys)}
Resources == {Paths[i] : i \in 1..Len(Paths)}
IndexOf(k) == CHOOSE i \in 1..Len(Keys) : Keys[i] = k

Feature(i) == [type |-> "object", icon |-> 10 * i + 1, title |-> 10 * i + 2,
               description |-> 10 * i + 3, value |-> 10 * i + 4]
Tech(i) == [type |-> "object", icon |-> 10 * i + 1, title |-> 10 * i + 2,
            description |-> 10 * i + 3]
UseCase(i) == [type |-> "object", icon |-> 10 * i + 1, scenario |-> 10 * i + 2,
               painPoint |-> 10 * i + 3, solution |-> 10 * i + 4, benefit |-> 10 * i + 5]
DeliveryItem(i) == [type |-> "object", reportType |-> 10 * i + 1, frequency |-> 10 * i + 2,
                    coreContent |-> 10 * i + 3, value |-> 10 * i + 4]

\* a document that parses but lacks the expected field: {}
EmptyObject == [type |-> "object"]

Documents(r) ==
    {EmptyObject} \cup
    CASE r = Paths[1] ->
           {[type |-> "object", features |-> Arr([i \in 1..n |-> Feature(i)])] : n \in 0..MaxFeatures}
      [] r = Paths[2] ->
           {[type |-> "object", technologies |-> Arr([i \in 1..n |-> Tech(i)])] : n \in 0..MaxTech}
      [] r = Paths[3] ->
           {[type |-> "object", scenarios |-> Arr([i \in 1..n |-> UseCase(i)])] : n \in 0..MaxUseCases}
      [] r = Paths[4] ->
           {[type |-> "object", deliveryItems |-> Arr([i \in 1..n |-> DeliveryItem(i)])] : n \in 0..MaxDelivery}

(***************************************************************************)
(* Containers and their contents.                                          *)
(***************************************************************************)
Containers == {"features-grid", "tech-preview", "use-cases-grid", "service-table-container"}

Html(kind, items) == [kind |-> kind, items |-> items]
StaticMarkup == Html("static", <<>>)
LoadingPlaceholder == Html("loading-placeholder", <<>>)
LoadingText == Html("loading-text", <<>>)
FallbackMessage == Html("fallback-message", <<>>)

\* Utils.showLoading
showLoading(d, c) == [d EXCEPT ![c] = LoadingPlaceholder]

(***************************************************************************)
(* DataLoader.loadJSON: what the returned promise settles to, given how    *)
(* the fetch ended ("reject", "status", "parse", "ok") and the document.   *)
(***************************************************************************)
Pending == [state |-> "pending", value |-> Undefined]

loadJSONUncaught(how, doc) ==
    IF how = "ok" THEN [state |-> "fulfilled", value |-> doc]
    ELSE IF how = "reject" THEN [state |-> "rejected", value |-> Undefined]
    ELSE [state |-> "fulfilled", value |-> Null]

loadJSON(how, doc) ==
    IF how = "ok" THEN [state |-> "fulfilled", value |-> doc]
    ELSE [state |-> "fulfilled", value |-> Null]

\* Promise.all over the four promises
PromiseAllAny(p) ==
    IF \E r \in Resources : p[r].state = "rejected" THEN "rejected"
    ELSE IF \E r \in Resources : p[r].state = "fulfilled" THEN "fulfilled"
    ELSE "pending"

PromiseAll(p) ==
    IF \E r \in Resources : p[r].state = "rejected" THEN "rejected"
    ELSE IF \A r \in Resources : p[r].state = "fulfilled" THEN "fulfilled"
    ELSE "pending"

\* DataLoader.loadAllData after the await: try / catch / finally
loadAllDataNoFinally(p, dat) ==
    IF PromiseAll(p) = "fulfilled"
    THEN [data |-> [k \in KeySet |-> p[Paths[IndexOf(k)]].value], success |-> "true", isLoading |-> TRUE]
    ELSE [data |-> dat, success |-> "false", isLoading |-> FALSE]

loadAllData(p, dat) ==
    IF PromiseAll(p) = "fulfilled"
    THEN [data |-> [k \in KeySet |-> p[Paths[IndexOf(k)]].value], success |-> "true", isLoading |-> FALSE]
    ELSE [data |-> dat, success |-> "false", isLoading |-> FALSE]

(***************************************************************************)
(* UIComponents: a record to a markup fragment.  A template literal reads  *)
(* the record's properties, so a null record raises a TypeError.           *)
(***************************************************************************)
renderFeatureCard(feature) ==
    IF ~Truthy(feature) THEN TypeError
    ELSE [type |-> "fragment", class |-> "feature-card",
          icon |-> GetProp(feature, "icon"), title |-> GetProp(feature, "title"),
          description |-> GetProp(feature, "description"), value |-> GetProp(feature, "value")]

renderTechCard(tech) ==
    IF ~Truthy(tech) THEN TypeError
    ELSE [type |-> "fragment", class |-> "tech-card",
          icon |-> GetProp(tech, "icon"), title |-> GetProp(tech, "title"),
          description |-> GetProp(tech, "description")]

renderUseCaseCard(useCase) ==
    IF ~Truthy(useCase) THEN TypeError
    ELSE [type |-> "fragment", class |-> "use-case-card",
          icon |-> GetProp(useCase, "icon"), scenario |-> GetProp(useCase, "scenario"),
          painPoint |-> GetProp(useCase, "painPoint"), solution |-> GetProp(useCase, "solution"),
          benefit |-> GetProp(useCase, "benefit")]

\* one <tr> of the service table
renderServiceRow(item) ==
    IF ~Truthy(item) THEN TypeError
    ELSE [type |-> "fragment", class |-> "tr",
          cells |-> <<GetProp(item, "reportType"), GetProp(item, "frequency"),
                      GetProp(item, "coreContent"), GetProp(item, "value")>>]

Raises(frags) == \E i \in 1..Len(frags) : frags[i] = TypeError

renderServiceTableNoGuard(serviceModel) ==
    LET items == IF Truthy(serviceModel) /\ Truthy(GetProp(serviceModel, "deliveryItems"))
                 THEN GetProp(serviceModel, "deliveryItems").elems ELSE <<>>
        tableRows == [i \in 1..Len(items) |-> renderServiceRow(items[i])]
    IN  IF Raises(tableRows) THEN TypeError ELSE Html("table", tableRows)

renderServiceTable(serviceModel) ==
    IF ~Truthy(serviceModel) \/ ~Truthy(GetProp(serviceModel, "deliveryItems"))
    THEN LoadingText
    ELSE LET items == GetProp(serviceModel, "deliveryItems").elems
             tableRows == [i \in 1..Len(items) |-> renderServiceRow(items[i])]
         IN  IF Raises(tableRows) THEN TypeError ELSE Html("table", tableRows)

(***************************************************************************)
(* PageManager render functions.  A render state is the containers, the    *)
(* set of containers assigned so far, and whether an exception escaped.    *)
(***************************************************************************)
Raise(st) == [st EXCEPT !.threw = TRUE]
SetInnerHTML(st, c, html) == [st EXCEPT !.dom[c] = html, !.written = @ \cup {c}]

\* the staggered animation of renderFeatures: delay in tenths of a second
Animate(card, index) ==
    [type |-> "element", class |-> card.class, icon |-> card.icon, title |-> card.title,
     description |-> card.description, value |-> card.value,
     animationDelay |-> index, fadeIn |-> TRUE]

renderFeaturesNoNullCheck(st, dat) ==
    LET features == dat["features"]
        guard == GetProp(features, "features")
    IN  IF guard = TypeError THEN Raise(st)
        ELSE IF ~Truthy(guard) THEN st
        ELSE LET shown == slice(guard, 6).elems
                 cards == [i \in 1..Len(shown) |-> renderFeatureCard(shown[i])]
             IN  IF Raises(cards) THEN Raise(st)
                 ELSE SetInnerHTML(st, "features-grid",
                          Html("cards", [i \in 1..Len(cards) |-> Animate(cards[i], i - 1)]))

renderFeatures(st, dat) ==
    LET features == dat["features"]
        guard == IF Truthy(features) THEN GetProp(features, "features") ELSE features
    IN  IF guard = TypeError THEN Raise(st)
        ELSE IF ~Truthy(guard) THEN st
        ELSE LET shown == slice(guard, 6).elems
                 cards == [i \in 1..Len(shown) |-> renderFeatureCard(shown[i])]
             IN  IF Raises(cards) THEN Raise(st)
                 ELSE SetInnerHTML(st, "features-grid",
                          Html("cards", [i \in 1..Len(cards) |-> Animate(cards[i], i - 1)]))

renderTechnologyPreview(st, dat) ==
    LET techData == dat["techAdvantages"]
        guard == IF Truthy(techData) THEN GetProp(techData, "technologies") ELSE techData
    IN  IF guard = TypeError THEN Raise(st)
        ELSE IF ~Truthy(guard) THEN st
        ELSE LET cards == [i \in 1..Len(guard.elems) |-> renderTechCard(guard.elems[i])]
             IN  IF Raises(cards) THEN Raise(st)
                 ELSE SetInnerHTML(st, "tech-preview", Html("cards", cards))

renderUseCasesAlwaysWrites(st, dat) ==
    LET useCasesData == dat["useCases"]
        guard == IF Truthy(useCasesData) THEN GetProp(useCasesData, "scenarios") ELSE useCasesData
        shown == IF Truthy(guard) THEN slice(guard, 3).elems ELSE <<>>
        cards == [i \in 1..Len(shown) |-> renderUseCaseCard(shown[i])]
    IN  IF Raises(cards) THEN Raise(st)
        ELSE SetInnerHTML(st, "use-cases-grid", Html("cards", cards))

renderUseCases(st, dat) ==
    LET useCasesData == dat["useCases"]
        guard == IF Truthy(useCasesData) THEN GetProp(useCasesData, "scenarios") ELSE useCasesData
    IN  IF guard = TypeError THEN Raise(st)
        ELSE IF ~Truthy(guard) THEN st
        ELSE LET shown == slice(guard, 3).elems
                 cards == [i \in 1..Len(shown) |-> renderUseCaseCard(shown[i])]
             IN  IF Raises(cards) THEN Raise(st)
                 ELSE SetInnerHTML(st, "use-cases-grid", Html("cards", cards))

renderServiceModel(st, dat) ==
    LET html == renderServiceTable(dat["serviceModel"])
    IN  IF html = TypeError THEN Raise(st)
        ELSE SetInnerHTML(st, "service-table-container", html)

renderFallbackContent(st) == SetInnerHTML(st, "features-grid", FallbackMessage)

\* PageManager.loadAndRenderContent after the await; the statements of a
\* branch run in order and an exception skips the rest
renderBranch(st, ok, dat) ==
    IF ok = "true"
    THEN LET s1 == renderFeatures(st, dat)
             s2 == IF s1.threw THEN s1 ELSE renderTechnologyPreview(s1, dat)
             s3 == IF s2.threw THEN s2 ELSE renderUseCases(s2, dat)
         IN  IF s3.threw THEN s3 ELSE renderServiceModel(s3, dat)
    ELSE renderFallbackContent(st)

(***************************************************************************)
(* The load cycle.                                                         *)
(***************************************************************************)
InitLoad ==
    /\ pc = "start"
    /\ isLoading = FALSE
    /\ data = [k \in KeySet |-> Null]
    /\ stage = [r \in Resources |-> "idle"]
    /\ outcome = [r \in Resources |-> "none"]
    /\ body = [r \in Resources |-> Undefined]
    /\ promise = [r \in Resources |-> Pending]
    /\ success = "none"
    /\ dom = [c \in Containers |-> StaticMarkup]
    /\ written = {}
    /\ threw = FALSE
    /\ branch = "none"

\* loadAndRenderContent up to the call of loadAllData
ShowLoadingStates ==
    /\ pc = "start"
    /\ pc' = "loading"
    /\ dom' = [c \in Containers |-> showLoading(dom, c)[c]]
    /\ UNCHANGED <<isLoading, data, stage, outcome, body, promise, success, written, threw, branch>>

\* loadAllData up to its await: the four loadJSON calls issue their fetches
StartLoadAllData ==
    /\ pc = "loading"
    /\ pc' = "awaitAll"
    /\ isLoading' = TRUE
    /\ stage' = [r \in Resources |-> "fetching"]
    /\ UNCHANGED <<data, outcome, body, promise, success, dom, written, threw, branch>>

Settle(r, how, doc) ==
    /\ stage' = [stage EXCEPT ![r] = "settled"]
    /\ outcome' = [outcome EXCEPT ![r] = how]
    /\ body' = [body EXCEPT ![r] = doc]
    /\ promise' = [promise EXCEPT ![r] = loadJSON(how, doc)]
    /\ UNCHANGED <<pc, isLoading, data, success, dom, written, threw, branch>>

\* fetch() rejects (network error)
FetchRejects(r) ==
    /\ stage[r] = "fetching"
    /\ Settle(r, "reject", Undefined)

\* fetch() resolves with a response; !response.ok throws
FetchResponds(r) ==
    /\ stage[r] = "fetching"
    /\ \E ok \in BOOLEAN :
         IF ok
         THEN /\ stage' = [stage EXCEPT ![r] = "parsing"]
              /\ UNCHANGED <<pc, isLoading, data, outcome, body, promise, success, dom, written, threw, branch>>
         ELSE Settle(r, "status", Undefined)

\* response.json() rejects (body is not JSON)
JsonFails(r) ==
    /\ stage[r] = "parsing"
    /\ Settle(r, "parse", Undefined)

\* response.json() resolves with the parsed document
JsonParses(r) ==
    /\ stage[r] = "parsing"
    /\ \E doc \in Documents(r) : Settle(r, "ok", doc)

\* loadAllData from the await to its return
LoadAllDataSettles ==
    /\ pc = "awaitAll"
    /\ PromiseAll(promise) # "pending"
    /\ LET res == loadAllData(promise, data)
       IN  /\ data' = res.data
           /\ success' = res.success
           /\ isLoading' = res.isLoading
    /\ pc' = "loaded"
    /\ UNCHANGED <<stage, outcome, body, promise, dom, written, threw, branch>>

\* loadAndRenderContent after `await DataLoader.loadAllData()`
RenderContent ==
    /\ pc = "loaded"
    /\ LET st == renderBranch([dom |-> dom, written |-> {}, threw |-> FALSE], success, data)
       IN  /\ dom' = st.dom
           /\ written' = st.written
           /\ threw' = st.threw
    /\ branch' = IF success = "true" THEN "success" ELSE "failure"
    /\ pc' = "done"
    /\ UNCHANGED <<isLoading, data, stage, outcome, body, promise, success>>

Init ==
    /\ InitLoad
    /\ timeout = 0 /\ timers = {} /\ nextId = 1 /\ log = <<>> /\ bursts = 0
    /\ href = <<>> /\ classes = <<>> /\ before = <<>>
    /\ firstTarget = 0 /\ lastTarget = 0 /\ current = 0

Next ==
    \/ ShowLoadingStates /\ UNCHANGED <<debVars, navVars>>
    \/ StartLoadAllData /\ UNCHANGED <<debVars, navVars>>
    \/ \E r \in Resources : FetchRejects(r) /\ UNCHANGED <<debVars, navVars>>
    \/ \E r \in Resources : FetchResponds(r) /\ UNCHANGED <<debVars, navVars>>
    \/ \E r \in Resources : JsonFails(r) /\ UNCHANGED <<debVars, navVars>>
    \/ \E r \in Resources : JsonParses(r) /\ UNCHANGED <<debVars, navVars>>
    \/ LoadAllDataSettles /\ UNCHANGED <<debVars, navVars>>
    \/ RenderContent /\ UNCHANGED <<debVars, navVars>>

Spec == Init /\ [][Next]_vars

(***************************************************************************)
(* Utils.debounce.  The closure holds `timeout`; the host holds the table  *)
(* of pending timers, each with the arguments its `later` captured.  A     *)
(* step returns the new closure and host state and the arguments with      *)
(* which it invoked func.                                                  *)
(***************************************************************************)
Args == 1..NumArgs

clearTimeout(tm, handle) == {t \in tm : t.id # handle}

executedFunctionNoCancel(s, arg) ==
    [timeout |-> s.nextId,
     timers |-> s.timers \cup {[id |-> s.nextId, args |-> arg]},
     nextId |-> s.nextId + 1,
     invoked |-> <<>>]

\* a call of the debounced function
executedFunction(s, arg) ==
    [timeout |-> s.nextId,
     timers |-> clearTimeout(s.timers, s.timeout) \cup {[id |-> s.nextId, args |-> arg]},
     nextId |-> s.nextId + 1,
     invoked |-> <<>>]

\* the host runs the timer callback `later` of a pending timer t
later(s, t) ==
    [timeout |-> s.timeout,
     timers |-> clearTimeout(s.timers \ {t}, s.timeout),
     nextId |-> s.nextId,
     invoked |-> <<t.args>>]

Event(ev, arg) == [ev |-> ev, arg |-> arg]
Events(ev, as) == [i \in 1..Len(as) |-> Event(ev, as[i])]
CallCount == Cardinality({i \in 1..Len(log) : log[i].ev = "call"})
InvokeCount == Cardinality({i \in 1..Len(log) : log[i].ev = "invoke"})
Closure == [timeout |-> timeout, timers |-> timers, nextId |-> nextId]

InitDebounce ==
    /\ timeout = 0
    /\ timers = {}
    /\ nextId = 1
    /\ log = <<>>
    /\ bursts = 0

\* a resize event calls the debounced handler
Call ==
    /\ CallCount < MaxCalls
    /\ \E arg \in Args :
         LET s == executedFunction(Closure, arg)
         IN  /\ timeout' = s.timeout
             /\ timers' = s.timers
             /\ nextId' = s.nextId
             /\ log' = log \o <<Event("call", arg)>> \o Events("invoke", s.invoked)
    /\ bursts' = IF timers = {} THEN bursts + 1 ELSE bursts

\* a pending timer expires
TimerFires ==
    \E t \in timers :
         LET s == later(Closure, t)
         IN  /\ timeout' = s.timeout
             /\ timers' = s.timers
             /\ nextId' = s.nextId
             /\ log' = log \o Events("invoke", s.invoked)
             /\ UNCHANGED bursts

(***************************************************************************)
(* Navigation.setupActiveNavigation: the intersection callback.            *)
(***************************************************************************)
Sections == 1..NumSections
Links == 1..NumLinks
ActiveClasses == {"text-white", "bg-white/10"}
InactiveClass == "text-gray-300"

\* document.querySelector(`nav a[href="#id"]`): first match in document order, 0 if none
querySelector(hr, id) ==
    IF \E l \in DOMAIN hr : hr[l] = id
    THEN CHOOSE l \in DOMAIN hr : hr[l] = id /\ \A k \in DOMAIN hr : hr[k] = id => l <= k
    ELSE 0

processEntryNoReset(hr, cls, entry) ==
    IF ~entry.isIntersecting THEN cls
    ELSE LET activeLink == querySelector(hr, entry.target)
         IN  IF activeLink = 0 THEN cls
             ELSE [cls EXCEPT ![activeLink] = (@ \ {InactiveClass}) \cup ActiveClasses]

\* body of entries.forEach
processEntry(hr, cls, entry) ==
    IF ~entry.isIntersecting THEN cls
    ELSE LET reset == [l \in DOMAIN cls |-> (cls[l] \ ActiveClasses) \cup {InactiveClass}]
             activeLink == querySelector(hr, entry.target)
         IN  IF activeLink = 0 THEN reset
             ELSE [reset EXCEPT ![activeLink] = (@ \ {InactiveClass}) \cup ActiveClasses]

RECURSIVE observerCallback(_, _, _)
observerCallback(hr, cls, entries) ==
    IF entries = <<>> THEN cls
    ELSE observerCallback(hr, processEntry(hr, cls, Head(entries)), Tail(entries))

Entries == [target : Sections, isIntersecting : BOOLEAN]
Batches == UNION {[1..n -> Entries] : n \in 1..MaxBatch}
InitialClassLists == {{InactiveClass}, ActiveClasses}

\* the page as the script finds it: each link points to a section or to
\* some other anchor (0), with the classes the markup gave it
InitNav ==
    /\ href \in [Links -> {0} \cup Sections]
    /\ classes \in [Links -> InitialClassLists]
    /\ before = classes
    /\ firstTarget = 0
    /\ lastTarget = 0
    /\ current = 0

\* the observer delivers a batch of entries
Intersect ==
    \E entries \in Batches :
        /\ classes' = observerCallback(href, classes, entries)
        /\ before' = classes
        /\ LET hits == SelectSeq(entries, LAMBDA e : e.isIntersecting)
           IN  /\ firstTarget' = IF hits = <<>> THEN 0 ELSE hits[1].target
               /\ lastTarget' = IF hits = <<>> THEN 0 ELSE hits[Len(hits)].target
               /\ current' = IF hits = <<>> THEN current ELSE hits[Len(hits)].target
        /\ UNCHANGED href

(***************************************************************************)
(* Specifications of the debounced handler and of the observer.            *)
(***************************************************************************)
DebounceInit ==
    /\ InitLoad
    /\ InitDebounce
    /\ href = <<>> /\ classes = <<>> /\ before = <<>>
    /\ firstTarget = 0 /\ lastTarget = 0 /\ current = 0

DebounceNext ==
    \/ Call /\ UNCHANGED <<loadVars, navVars>>
    \/ TimerFires /\ UNCHANGED <<loadVars, navVars>>

DebounceSpec == DebounceInit /\ [][DebounceNext]_vars

NavInit ==
    /\ InitLoad
    /\ InitDebounce
    /\ InitNav

NavNext == Intersect /\ UNCHANGED <<loadVars, debVars>>

NavSpec == NavInit /\ [][NavNext]_vars

(***************************************************************************)
(* Properties of the load cycle (Spec).                                    *)
(***************************************************************************)
Failed(r) == outcome[r] \in {"reject", "status", "parse"}
Returned == pc \in {"loaded", "done"}
ContainerOf(k) ==
    CASE k = "features" -> "features-grid"
      [] k = "techAdvantages" -> "tech-preview"
      [] k = "useCases" -> "use-cases-grid"
      [] k = "serviceModel" -> "service-table-container"
ExpectedField(k) ==
    CASE k = "features" -> "features"
      [] k = "techAdvantages" -> "technologies"
      [] k = "useCases" -> "scenarios"
      [] k = "serviceModel" -> "deliveryItems"
Malformed(k) == data[k] # Null /\ ExpectedField(k) \notin DOMAIN data[k]
WellShaped(k) == ExpectedField(k) \in DOMAIN data[k]

\* C1: whatever way each of the four fetches ends, the promise of loadJSON
\* is never rejected and is fulfilled with null for a failed resource;
\* loadAllData returns true, and AppState.data holds null exactly at the
\* keys whose resource failed and the parsed document at the other keys,
\* the i-th key taking the i-th path.
C1_FailSoft ==
    /\ \A r \in Resources :
         /\ promise[r].state # "rejected"
         /\ stage[r] = "settled" /\ Failed(r) => promise[r] = [state |-> "fulfilled", value |-> Null]
         /\ stage[r] = "settled" /\ ~Failed(r) => promise[r] = [state |-> "fulfilled", value |-> body[r]]
    /\ Returned =>
         /\ success = "true"
         /\ \A i \in 1..Len(Keys) :
              /\ Failed(Paths[i]) <=> data[Keys[i]] = Null
              /\ ~Failed(Paths[i]) => data[Keys[i]] = body[Paths[i]]

C1_Witness ==
    /\ pc = "done"
    /\ outcome[Paths[1]] = "status" /\ outcome[Paths[2]] = "reject"
    /\ outcome[Paths[3]] = "parse" /\ outcome[Paths[4]] = "ok"
    /\ data["features"] = Null /\ data["serviceModel"] # Null

\* C2: when all four fetches reject, loadAndRenderContent takes its failure
\* branch and the features-grid container holds the fallback message.
C2_AggregateFailure ==
    (pc = "done" /\ \A r \in Resources : outcome[r] = "reject") =>
        (branch = "failure" /\ dom["features-grid"] = FallbackMessage)

\* C3: a container holds something other than its loading placeholder only
\* after all four fetches have settled and AppState.data has been written;
\* while any fetch is unsettled every container is unrendered.
C3_NoPartialRender ==
    (\E c \in Containers : dom[c] \notin {StaticMarkup, LoadingPlaceholder}) =>
        /\ \A r \in Resources : stage[r] = "settled"
        /\ pc = "done"
        /\ \A i \in 1..Len(Keys) : data[Keys[i]] = promise[Paths[i]].value

C3_Witness ==
    /\ pc = "awaitAll"
    /\ stage[Paths[3]] = "fetching"
    /\ \A r \in Resources \ {Paths[3]} : stage[r] = "settled" /\ outcome[r] = "ok"
    /\ \A c \in Containers : dom[c] = LoadingPlaceholder

\* C4: renderFeatures injects exactly min(n, 6) cards and renderUseCases
\* exactly min(n, 3), the leading items of the source array in order.
C4_DisplayCaps ==
    (pc = "done" /\ branch = "success") =>
        /\ WellShaped("features") =>
             LET src == data["features"].features.elems
                 shown == dom["features-grid"].items
             IN  /\ dom["features-grid"].kind = "cards"
                 /\ Len(shown) = Min(Len(src), 6)
                 /\ \A i \in 1..Len(shown) :
                      /\ shown[i].class = "feature-card"
                      /\ <<shown[i].icon, shown[i].title, shown[i].description, shown[i].value>>
                           = <<src[i].icon, src[i].title, src[i].description, src[i].value>>
        /\ WellShaped("useCases") =>
             LET src == data["useCases"].scenarios.elems
                 shown == dom["use-cases-grid"].items
             IN  /\ dom["use-cases-grid"].kind = "cards"
                 /\ Len(shown) = Min(Len(src), 3)
                 /\ \A i \in 1..Len(shown) :
                      <<shown[i].icon, shown[i].scenario, shown[i].painPoint, shown[i].solution, shown[i].benefit>>
                        = <<src[i].icon, src[i].scenario, src[i].painPoint, src[i].solution, src[i].benefit>>

C4_Witness ==
    /\ pc = "done"
    /\ WellShaped("features") /\ Len(data["features"].features.elems) = 7
    /\ Len(dom["features-grid"].items) = 6
    /\ WellShaped("useCases") /\ Len(data["useCases"].scenarios.elems) = 4
    /\ Len(dom["use-cases-grid"].items) = 3

\* C5: renderServiceTable yields the loading text, and no table, for a null
\* model or one without deliveryItems, and otherwise a table with one row
\* per delivery item, in order, carrying its four values.
C5_ServiceTable ==
    (pc = "done" /\ branch = "success") =>
        LET html == dom["service-table-container"]
        IN  IF WellShaped("serviceModel")
            THEN LET src == data["serviceModel"].deliveryItems.elems
                 IN  /\ html.kind = "table"
                     /\ Len(html.items) = Len(src)
                     /\ \A i \in 1..Len(src) :
                          html.items[i].cells =
                            <<src[i].reportType, src[i].frequency, src[i].coreContent, src[i].value>>
            ELSE html = LoadingText

C5_Witness ==
    /\ pc = "done"
    /\ WellShaped("serviceModel")
    /\ Len(data["serviceModel"].deliveryItems.elems) = 2
    /\ dom["service-table-container"].kind = "table"
    /\ Len(dom["service-table-container"].items) = 2

\* C6: with each payload null, malformed or well-shaped, the four render
\* calls of the success branch raise nothing, and a section whose payload
\* is null or malformed shows a placeholder.
C6_RenderNeverThrows ==
    (pc = "done" /\ branch = "success") =>
        /\ ~threw
        /\ \A k \in KeySet :
             ~WellShaped(k) => dom[ContainerOf(k)] \in {LoadingPlaceholder, LoadingText}

C6_Witness ==
    /\ pc = "done" /\ branch = "success" /\ ~threw
    /\ data["features"] = Null
    /\ Malformed("techAdvantages")
    /\ WellShaped("useCases")
    /\ Malformed("serviceModel")

\* C7 as stated: in the success branch a section whose payload is null is
\* not written after the loading step, for each of the four sections, and
\* only containers whose payload is present are written.
C7_Original ==
    (pc = "done" /\ branch = "success") =>
        /\ \A k \in KeySet :
             data[k] = Null => (ContainerOf(k) \notin written /\ dom[ContainerOf(k)] = LoadingPlaceholder)
        /\ \A k \in KeySet : ContainerOf(k) \in written => data[k] # Null

\* C7 amended: that holds of features-grid, tech-preview and use-cases-grid;
\* service-table-container is written in every success branch, with the
\* loading text when its payload is null.
C7_NullPayloadLeftAlone ==
    (pc = "done" /\ branch = "success") =>
        /\ \A k \in KeySet \ {"serviceModel"} :
             /\ data[k] = Null => (ContainerOf(k) \notin written /\ dom[ContainerOf(k)] = LoadingPlaceholder)
             /\ ContainerOf(k) \in written => data[k] # Null
        /\ "service-table-container" \in written
        /\ data["serviceModel"] = Null => dom["service-table-container"] = LoadingText

C7_Witness ==
    /\ pc = "done" /\ branch = "success"
    /\ data["useCases"] = Null /\ data["serviceModel"] = Null
    /\ WellShaped("features")
    /\ written = {"features-grid", "service-table-container"}

\* C8: isLoading is true while loadAllData awaits the four fetches and
\* false in every state after it has returned, in particular when the
\* render functions read AppState.data.
C8_IsLoading ==
    /\ pc = "awaitAll" => isLoading
    /\ Returned => ~isLoading

C8_Witness ==
    /\ pc = "loaded"
    /\ success = "true"
    /\ ~isLoading
    /\ \E k \in KeySet : data[k] # Null

(***************************************************************************)
(* Properties of the debounced function (DebounceSpec).                    *)
(***************************************************************************)
LastEvent == log[Len(log)]

\* C9: a call never invokes func itself; it cancels the pending timer and
\* schedules a new one, so at most one timer is pending and it carries the
\* arguments of the latest call; func is invoked only by a timer, directly
\* after the last call of a burst and with that call's arguments, once per
\* burst.
C9_Debounce ==
    /\ Cardinality(timers) <= 1
    /\ timers # {} =>
         /\ LastEvent.ev = "call"
         /\ timers = {[id |-> timeout, args |-> LastEvent.arg]}
    /\ timers = {} => (log = <<>> \/ LastEvent.ev = "invoke")
    /\ \A i \in 1..Len(log) :
         log[i].ev = "invoke" => (i > 1 /\ log[i - 1] = Event("call", log[i].arg))
    /\ InvokeCount + Cardinality(timers) = bursts

C9_Witness ==
    \E i \in 1..Len(log) :
        /\ i + 3 <= Len(log)
        /\ log[i].ev = "call" /\ log[i + 1].ev = "call" /\ log[i + 2].ev = "call"
        /\ log[i].arg # log[i + 2].arg
        /\ log[i + 3] = Event("invoke", log[i + 2].arg)
        /\ InvokeCount = 1
        /\ timers = {}

(***************************************************************************)
(* Properties of the active-section highlighting (NavSpec).                *)
(***************************************************************************)
Active(l) == ActiveClasses \subseteq classes[l] /\ InactiveClass \notin classes[l]
Inactive(l) == InactiveClass \in classes[l] /\ classes[l] \cap ActiveClasses = {}
OnlyActive(id) ==
    \A l \in Links : IF l = querySelector(href, id) THEN Active(l) ELSE Inactive(l)

\* C10: after a batch with an intersecting entry, the link that matches the
\* last intersecting entry (the first such link of the nav) is active and
\* every other link is inactive; a batch without intersecting entries
\* changes no link, so the styling keeps following the last intersecting
\* entry delivered and at most one link is active from then on.
C10_ActiveLink ==
    /\ lastTarget # 0 => OnlyActive(lastTarget)
    /\ lastTarget = 0 => classes = before
    /\ current # 0 =>
         /\ OnlyActive(current)
         /\ Cardinality({l \in Links : Active(l)}) <= 1

C10_Witness ==
    /\ firstTarget # 0 /\ lastTarget # 0
    /\ firstTarget # lastTarget
    /\ querySelector(href, firstTarget) # 0
    /\ querySelector(href, lastTarget) # 0
    /\ Active(querySelector(href, lastTarget))
    /\ before[querySelector(href, firstTarget)] = ActiveClasses
    /\ Inactive(querySelector(href, firstTarget))

====
